---- MODULE Spec2Model ----
(***************************************************************************)
(* A model of recordlinkage/fuse.py: the resolution queue of FuseCore, the *)
(* aligner FuseLinks._make_resolution_series and FuseCore.fuse.            *)
(*                                                                         *)
(* Values are sequences of strings, so that every value the model builds   *)
(* can be compared with every other one:                                   *)
(*   a table cell          <<data, record id, column>>                     *)
(*   a static constant     <<"const", tag>> \o the constant's text         *)
(*   a transformed value   <<transform>> \o value                          *)
(* Strategies and transforms are external and pure: an application is kept *)
(* as the term (function, argument, params), never evaluated.              *)
(***************************************************************************)
EXTENDS Integers, Sequences, FiniteSets, TLC

\* Bounds of the model.
MaxQueue == 2
MaxPairs == 2

----------------------------------------------------------------------------
(* Python values                                                           *)

\* An argument of queue_resolve that is None, a scalar or a list.
None == [tag |-> "none", l |-> <<>>]
Scalar(s) == [tag |-> "scalar", l |-> <<s>>]
List(l) == [tag |-> "list", l |-> l]

\* recordlinkage.utils.listify: a list is kept, None is [], a scalar x is [x].
listify(x) ==
    IF x.tag = "list" THEN x.l
    ELSE IF x.tag = "none" THEN <<>>
    ELSE x.l

\* callable(f): the model's callables are "f" and "g"; "notcallable" is not.
callable(f) == f \in {"f", "g"}

NoTransform == "None"

Min(a, b) == IF a < b THEN a ELSE b
Max(a, b) == IF a < b THEN b ELSE a

RECURSIVE SeqMin(_)
SeqMin(s) == IF Len(s) = 1 THEN s[1] ELSE Min(s[1], SeqMin(Tail(s)))

RECURSIVE SeqMax(_)
SeqMax(s) == IF Len(s) = 0 THEN 0 ELSE Max(s[1], SeqMax(Tail(s)))

----------------------------------------------------------------------------
(* pandas objects                                                          *)

\* A DataFrame keyed by record id: its rows in table order; every table has
\* the columns TableColumns, and the cell of record r in column c is
\* <<data, r, c>>.
TableColumns == {"x", "y", "t", "u"}
NoTable == [present |-> FALSE, rows |-> <<>>, data |-> "None"]
Table(rows, data) == [present |-> TRUE, rows |-> rows, data |-> data]
Cell(df, r, c) == <<df.data, r, c>>

\* A row label: pandas' default RangeIndex position, or a pair of record ids.
Positional(i) == [kind |-> "position", pos |-> i, a |-> "", b |-> ""]
PairLabel(p) == [kind |-> "pair", pos |-> 0, a |-> p[1], b |-> p[2]]

\* pd.Series(values) with no index given: a RangeIndex 0 .. n-1.
Series(values) ==
    [index |-> [i \in 1..Len(values) |-> Positional(i - 1)], values |-> values]

\* df[name]: the whole column, in table order.
WholeColumn(df, name) == [i \in 1..Len(df.rows) |-> Cell(df, df.rows[i], name)]

\* df[name].loc[list(ids)]: the column at the given record ids, in their order.
ColumnAt(df, name, ids) == [i \in 1..Len(ids) |-> Cell(df, ids[i], name)]

\* zip(*columns) with the truncation padded instead (itertools.zip_longest).
ZipLongest(columns) ==
    IF Len(columns) = 0 THEN <<>>
    ELSE LET lens == [k \in 1..Len(columns) |-> Len(columns[k])]
         IN  [i \in 1..SeqMax(lens) |->
                [k \in 1..Len(columns) |->
                    IF i <= Len(columns[k]) THEN columns[k][i] ELSE <<"NaN">>]]

\* zip(*columns): one tuple per row, as many rows as the shortest column has.
Zip(columns) ==
    IF Len(columns) = 0 THEN <<>>
    ELSE LET lens == [k \in 1..Len(columns) |-> Len(columns[k])]
         IN  [i \in 1..SeqMin(lens) |-> [k \in 1..Len(columns) |-> columns[k][i]]]

\* [s.apply(transform) for s in columns]
ApplyTransform(transform, columns) ==
    [k \in 1..Len(columns) |->
        [i \in 1..Len(columns[k]) |-> <<transform>> \o columns[k][i]]]

----------------------------------------------------------------------------
(* FuseLinks._make_resolution_series                                       *)

\* One column read of the aligner: df[name] (whole) or df[name].loc[ids].
Access(side, name, whole) == [side |-> side, name |-> name, whole |-> whole]

\* self.index[0] / self.index[1]: the A-half and the B-half of the pair index.
IndexColumn(index, half) == [i \in 1..Len(index.pairs) |-> index.pairs[i][half]]

\* The values a column read yields.
Read(self, acc) ==
    LET df == IF acc.side = "a" THEN self.df_a ELSE self.df_b
        ids == IndexColumn(self.index, IF acc.side = "a" THEN 1 ELSE 2)
    IN  IF acc.whole THEN WholeColumn(df, acc.name) ELSE ColumnAt(df, acc.name, ids)

\* The static constant as one value of a metadata tuple.
Const(meta) == <<"const", meta.tag>> \o meta.l

OneSidedMetaNever(meta_a, meta_b) == FALSE

\* (meta_a is None and meta_b is not None) or (meta_b is None and meta_a is not None)
OneSidedMeta(meta_a, meta_b) ==
    \/ meta_a.tag = "none" /\ meta_b.tag # "none"
    \/ meta_b.tag = "none" /\ meta_a.tag # "none"

\* use_meta
UseMeta(meta_a, meta_b) == ~(meta_a.tag = "none" /\ meta_b.tag = "none")

\* generalize_values_a / generalize_values_b; None counts as not True.
GeneralizeValues(values, meta, use_meta, static_meta) ==
    use_meta /\ ~static_meta /\ Len(values) < Len(meta)

\* generalize_meta_a / generalize_meta_b; None counts as not True.
GeneralizeMeta(values, meta, use_meta, static_meta) ==
    use_meta /\ ~static_meta /\ Len(values) > Len(meta)

\* l[0], which raises IndexError on an empty list: the name read is then
\* OutOfRange, a column of no table.
OutOfRange == "[0]"
First(l) == IF Len(l) = 0 THEN OutOfRange ELSE l[1]

DataAccessesNoBroadcast(side, values, meta, generalize_values) ==
    [k \in 1..Len(values) |-> Access(side, values[k], FALSE)]

\* data_a / data_b: the value columns read for one side.
DataAccesses(side, values, meta, generalize_values) ==
    IF generalize_values
    THEN [k \in 1..Len(meta) |-> Access(side, First(values), TRUE)]
    ELSE [k \in 1..Len(values) |-> Access(side, values[k], FALSE)]

\* metadata_a / metadata_b when static_meta is not True: the columns read.
MetadataAccesses(side, values, meta, generalize_meta) ==
    IF generalize_meta
    THEN [k \in 1..Len(values) |-> Access(side, First(meta), TRUE)]
    ELSE [k \in 1..Len(meta) |-> Access(side, meta[k], FALSE)]

StaticMetadataFromTable(self, side, meta, values) ==
    [k \in 1..Len(values) |-> Read(self, Access(side, "t", FALSE))]

\* metadata_a / metadata_b when static_meta is True: the constant, once per
\* pair, for each value column of the side.
StaticMetadata(self, side, meta, values) ==
    [k \in 1..Len(values) |-> [i \in 1..Len(self.index.pairs) |-> Const(meta)]]

\* The reads before the first one that fails, and the error it raises:
\* KeyError from df[name] for a column that is not in the table, IndexError
\* from the [0] of an empty list.
MissingAt(accs) == {k \in 1..Len(accs) : accs[k].name \notin TableColumns}
FirstMissing(accs) == CHOOSE k \in MissingAt(accs) : \A j \in MissingAt(accs) : k <= j
ReadsBefore(accs) ==
    IF MissingAt(accs) = {} THEN accs ELSE SubSeq(accs, 1, FirstMissing(accs) - 1)
LookupError(accs) ==
    IF accs[FirstMissing(accs)].name = OutOfRange
    THEN "IndexError: list index out of range"
    ELSE "KeyError"

\* An aligned record: zip(value_data, metadata) gives (values, metadata),
\* zip(value_data) gives the 1-tuple (values,).
Aligned(values, meta, use_meta) == [values |-> values, meta |-> meta, use_meta |-> use_meta]

Raised(err, reads) == [err |-> err, reads |-> reads, series |-> Series(<<>>)]

MakeResolutionSeries(self, job) ==
    LET values_a == listify(job.values_a)
        values_b == listify(job.values_b)
        static_meta == job.static_meta
        use_meta == UseMeta(job.meta_a, job.meta_b)
        meta_a == listify(job.meta_a)
        meta_b == listify(job.meta_b)
        generalize_values_a == GeneralizeValues(values_a, meta_a, use_meta, static_meta)
        generalize_meta_a == GeneralizeMeta(values_a, meta_a, use_meta, static_meta)
        generalize_values_b == GeneralizeValues(values_b, meta_b, use_meta, static_meta)
        generalize_meta_b == GeneralizeMeta(values_b, meta_b, use_meta, static_meta)
        value_accesses ==
            DataAccesses("a", values_a, meta_a, generalize_values_a)
            \o DataAccesses("b", values_b, meta_b, generalize_values_b)
        value_columns == [k \in 1..Len(value_accesses) |-> Read(self, value_accesses[k])]
        value_data ==
            Zip(IF job.transform_vals # NoTransform
                THEN ApplyTransform(job.transform_vals, value_columns)
                ELSE value_columns)
        meta_accesses ==
            IF use_meta /\ ~static_meta
            THEN MetadataAccesses("a", values_a, meta_a, generalize_meta_a)
                 \o MetadataAccesses("b", values_b, meta_b, generalize_meta_b)
            ELSE <<>>
        meta_columns ==
            IF static_meta
            THEN StaticMetadata(self, "a", job.meta_a, values_a)
                 \o StaticMetadata(self, "b", job.meta_b, values_b)
            ELSE [k \in 1..Len(meta_accesses) |-> Read(self, meta_accesses[k])]
        metadata ==
            Zip(IF job.transform_meta # NoTransform
                THEN ApplyTransform(job.transform_meta, meta_columns)
                ELSE meta_columns)
    IN  IF ~self.df_a.present THEN Raised("AssertionError: df_a is None", <<>>)
        ELSE IF ~self.df_b.present THEN Raised("AssertionError: df_b is None", <<>>)
        ELSE IF job.transform_vals # NoTransform /\ ~callable(job.transform_vals)
        THEN Raised("ValueError: transform_vals must be callable.", <<>>)
        ELSE IF job.transform_meta # NoTransform /\ ~callable(job.transform_meta)
        THEN Raised("ValueError: transform_meta must be callable.", <<>>)
        ELSE IF OneSidedMeta(job.meta_a, job.meta_b)
        THEN Raised("AssertionError: Metadata was given for one Data Frame but not the other.",
                    <<>>)
        ELSE IF MissingAt(value_accesses) # {}
        THEN Raised(LookupError(value_accesses), ReadsBefore(value_accesses))
        ELSE IF MissingAt(meta_accesses) # {}
        THEN Raised(LookupError(meta_accesses), value_accesses \o ReadsBefore(meta_accesses))
        ELSE [err |-> "",
              reads |-> value_accesses \o meta_accesses,
              series |->
                IF use_meta
                THEN Series([i \in 1..Min(Len(value_data), Len(metadata)) |->
                                Aligned(value_data[i], metadata[i], TRUE)])
                ELSE Series([i \in 1..Len(value_data) |->
                                Aligned(value_data[i], <<>>, FALSE)])]

----------------------------------------------------------------------------
(* FuseCore                                                                *)

VARIABLES
    vectors,            \* self.vectors
    index,              \* self.index
    predictions,        \* self.predictions
    df_a,               \* self.df_a
    df_b,               \* self.df_b
    suffix_a,           \* self.suffix_a
    suffix_b,           \* self.suffix_b
    resolution_queue,   \* self.resolution_queue
    call,               \* the latest fuse call: its arguments, the seed, the queue it saw
    ret,                \* what the latest fuse call returned or raised
    last,               \* the latest operation: "init", "queue" or "fuse"
    again               \* the latest fuse call repeated the arguments of the call before it

engine == <<vectors, index, predictions, df_a, df_b, suffix_a, suffix_b, resolution_queue>>
vars == <<engine, call, ret, last, again>>

\* The comparison vectors, of which only the row index (the pair index) is used.
NoVectors == [present |-> FALSE, pairs |-> <<>>]
Vectors(pairs) == [present |-> TRUE, pairs |-> pairs]

\* vectors.index.to_frame(): one row per pair, columns 0 and 1.
ToFrame(v) == [present |-> TRUE, pairs |-> v.pairs]

\* FuseCore.__init__ (FuseLinks.__init__ adds nothing fuse reads).
NewEngine ==
    [vectors |-> NoVectors, index |-> NoVectors, predictions |-> "None",
     df_a |-> NoTable, df_b |-> NoTable, suffix_a |-> "None", suffix_b |-> "None",
     resolution_queue |-> <<>>]

\* The engine object in the current state.
Self ==
    [vectors |-> vectors, index |-> index, predictions |-> predictions,
     df_a |-> df_a, df_b |-> df_b, suffix_a |-> suffix_a, suffix_b |-> suffix_b,
     resolution_queue |-> resolution_queue]

\* The job dictionary queue_resolve appends (kwargs, never read, is left out).
Job(fun, va, vb, ma, mb, tv, tm, static_meta, params) ==
    [fun |-> fun, values_a |-> va, values_b |-> vb, meta_a |-> ma, meta_b |-> mb,
     transform_vals |-> tv, transform_meta |-> tm,
     static_meta |-> static_meta, params |-> params]

\* params of a job queued without any: pandas takes args=None as no argument.
NoParams == <<>>

\* One call fun(record, *params). A randomized strategy's result also depends
\* on the state of the random generator, the seed of the run.
Resolved(fun, record, params, seed) ==
    [fun |-> fun, rec |-> record, params |-> params,
     draw |-> IF fun = "choose_random" THEN seed ELSE 0]

\* The missing value pandas puts where a column has no row.
NaN == [fun |-> "NaN", rec |-> Aligned(<<>>, <<>>, FALSE), params |-> <<>>, draw |-> 0]

\* FuseCore.resolve: data.apply(fun, args=params), on the index of data.
resolve(fun, data, params, seed) ==
    [index |-> data.index,
     values |-> [i \in 1..Len(data.values) |-> Resolved(fun, data.values[i], params, seed)]]

\* pd.concat(fused, axis=1) of Series on RangeIndexes: the rows are the union
\* of the indexes, and a column is NaN where its Series has no such row.
NoFrame == [index |-> <<>>, columns |-> <<>>]
Concat(fused) ==
    LET n == SeqMax([k \in 1..Len(fused) |-> Len(fused[k].values)])
    IN  [index |-> [i \in 1..n |-> Positional(i - 1)],
         columns |-> [k \in 1..Len(fused) |->
                        [i \in 1..n |->
                            IF i <= Len(fused[k].values) THEN fused[k].values[i] ELSE NaN]]]

\* What a fuse call leaves behind: status "returned" with the table, or
\* "raised" with the error and the queue position of the job it came from
\* (0: not from a job). aligned, reads and calls record, per job started,
\* the Series the aligner emitted, the columns it read and the number of
\* strategy calls.
NoReturn ==
    [status |-> "none", err |-> "", job |-> 0, table |-> NoFrame,
     aligned |-> <<>>, reads |-> <<>>, calls |-> <<>>]

FusionInitKeepTables(self, v, a, b, p, sa, sb) ==
    [self EXCEPT !.vectors = v, !.index = ToFrame(v), !.predictions = p,
                 !.df_a = IF self.df_a.present THEN self.df_a ELSE a,
                 !.df_b = IF self.df_b.present THEN self.df_b ELSE b,
                 !.suffix_a = sa, !.suffix_b = sb]

\* FuseCore._fusion_init
FusionInit(self, v, a, b, p, sa, sb) ==
    [self EXCEPT !.vectors = v, !.index = ToFrame(v), !.predictions = p,
                 !.df_a = a, !.df_b = b, !.suffix_a = sa, !.suffix_b = sb]

\* The loop of fuse over self.resolution_queue from job k on, and the concat.
RECURSIVE FuseJobs(_, _, _, _)
FuseJobs(self, k, seed, done) ==
    IF k > Len(self.resolution_queue)
    THEN IF Len(done.fused) = 0
         THEN [done EXCEPT !.status = "raised",
                           !.err = "ValueError: No objects to concatenate"]
         ELSE [done EXCEPT !.status = "returned", !.table = Concat(done.fused)]
    ELSE LET job == self.resolution_queue[k]
             s == MakeResolutionSeries(self, job)
         IN  IF s.err # ""
             THEN [done EXCEPT !.status = "raised", !.err = s.err, !.job = k,
                               !.reads = Append(@, s.reads), !.calls = Append(@, 0)]
             ELSE FuseJobs(self, k + 1, seed,
                    [done EXCEPT !.fused = Append(@, resolve(job.fun, s.series, job.params, seed)),
                                 !.aligned = Append(@, s.series),
                                 !.reads = Append(@, s.reads),
                                 !.calls = Append(@, Len(s.series.values))])

Outcome(done) ==
    [status |-> done.status, err |-> done.err, job |-> done.job, table |-> done.table,
     aligned |-> done.aligned, reads |-> done.reads, calls |-> done.calls]

FuseDraining(self, v, a, b, p, sa, sb, seed) ==
    LET run == FusionInit(self, v, a, b, p, sa, sb)
        start == [status |-> "none", err |-> "", job |-> 0, table |-> NoFrame,
                  aligned |-> <<>>, reads |-> <<>>, calls |-> <<>>, fused |-> <<>>]
    IN  [self |-> [run EXCEPT !.resolution_queue = <<>>],
         ret |-> Outcome(FuseJobs(run, 1, seed, start))]

\* FuseCore.fuse: the engine after the call, and what the call returned or
\* raised. _fusion_setup does nothing in FuseLinks.
fuse(self, v, a, b, p, sa, sb, seed) ==
    LET run == FusionInit(self, v, a, b, p, sa, sb)
        start == [status |-> "none", err |-> "", job |-> 0, table |-> NoFrame,
                  aligned |-> <<>>, reads |-> <<>>, calls |-> <<>>, fused |-> <<>>]
    IN  [self |-> run, ret |-> Outcome(FuseJobs(run, 1, seed, start))]

----------------------------------------------------------------------------
(* The callers' inputs                                                     *)

\* Matched pairs (A-id, B-id); a pair index lists distinct pairs.
PairPool == {<<"a1", "b1">>, <<"a2", "b1">>, <<"a1", "b2">>}
PairIndexes ==
    UNION {{s \in [1..n -> PairPool] : \A i, j \in 1..n : i # j => s[i] # s[j]} :
            n \in 0..MaxPairs}

\* Source tables: the same records in two row orders, and a smaller table.
TablesA == {Table(<<"a1", "a2">>, "A"), Table(<<"a2", "a1">>, "A"), Table(<<"a1">>, "A1")}
TablesB == {Table(<<"b1", "b2">>, "B"), Table(<<"b2", "b1">>, "B")}

Rows(df) == {df.rows[i] : i \in 1..Len(df.rows)}

\* The arguments of one fuse call. Every record id of the pair index is a row
\* of its table (the pair index comes from matching these tables).
Call(v, a, b, p, sa, sb) == [v |-> v, a |-> a, b |-> b, p |-> p, sa |-> sa, sb |-> sb]
NoCall ==
    [args |-> Call(NoVectors, NoTable, NoTable, "None", "None", "None"), seed |-> 0,
     queue |-> <<>>]
WellFormed(c) ==
    /\ c.a.present => \A i \in 1..Len(c.v.pairs) : c.v.pairs[i][1] \in Rows(c.a)
    /\ c.b.present => \A i \in 1..Len(c.v.pairs) : c.v.pairs[i][2] \in Rows(c.b)

\* The calls that exercise the aligner: every pair index on every table.
AlignerCalls ==
    {c \in {Call(Vectors(ix), a, b, "None", "_a", "_b") :
                ix \in PairIndexes, a \in TablesA, b \in TablesB} : WellFormed(c)}

\* The calls made on an engine with several jobs: no pair, a pair that is not
\* the first row of table A, more pairs than table A has rows, suffixes and
\* predictions given, and a missing table.
EngineCalls ==
    {Call(Vectors(<<>>), Table(<<"a1", "a2">>, "A"), Table(<<"b1", "b2">>, "B"),
          "None", "_a", "_b"),
     Call(Vectors(<<>>), Table(<<"a1">>, "A1"), Table(<<"b2", "b1">>, "B"),
          "labels", "_a", "_b"),
     Call(Vectors(<<<<"a2", "b1">>>>), Table(<<"a1", "a2">>, "A"), Table(<<"b1", "b2">>, "B"),
          "None", "_a", "_b"),
     Call(Vectors(<<<<"a1", "b1">>, <<"a1", "b2">>>>), Table(<<"a1">>, "A1"),
          Table(<<"b1", "b2">>, "B"), "labels", "_l", "_r"),
     Call(Vectors(<<<<"a1", "b2">>, <<"a2", "b1">>>>), Table(<<"a1", "a2">>, "A"),
          Table(<<"b2", "b1">>, "B"), "None", "_a", "_b"),
     Call(Vectors(<<<<"a1", "b1">>>>), NoTable, Table(<<"b1", "b2">>, "B"),
          "None", "_a", "_b"),
     Call(Vectors(<<<<"a1", "b1">>>>), Table(<<"a1", "a2">>, "A"), NoTable,
          "None", "_a", "_b")}

\* The states of the random generator a run may start from.
Seeds == {0, 1}

\* Column lists and metadata arguments of the jobs that exercise the aligner.
ValueListsA == {<<"x">>, <<"y", "x">>, <<"x", "x", "y">>}
ValueListsB == {<<"x">>, <<"y", "x">>}
MetaArgsA == {None, List(<<"t">>), List(<<"u", "t">>), List(<<"t", "u", "u">>)}
MetaArgsB == {None, List(<<"t">>), List(<<"u", "t">>)}
TransformPairs ==
    {<<NoTransform, NoTransform>>, <<"f", NoTransform>>, <<NoTransform, "g">>, <<"f", "g">>,
     <<"notcallable", NoTransform>>, <<NoTransform, "notcallable">>}

AlignerJobs ==
    {Job("choose_max", List(va), List(vb), ma, mb, t[1], t[2], st, NoParams) :
        va \in ValueListsA, vb \in ValueListsB, ma \in MetaArgsA, mb \in MetaArgsB,
        t \in TransformPairs, st \in BOOLEAN}

\* The jobs queued directly on an engine with several jobs: generalized values
\* on one side and generalized metadata on the other, direct metadata with
\* both transforms, metadata for one side only, and a column no table has.
EngineJobs ==
    {Job("choose_metadata_max", List(<<"x">>), List(<<"y", "x">>),
         List(<<"u", "t">>), List(<<"t">>), NoTransform, NoTransform, FALSE, NoParams),
     Job("choose_metadata_min", List(<<"x">>), List(<<"y">>),
         List(<<"t">>), List(<<"u">>), "f", "g", FALSE, <<"first">>),
     Job("choose_max", Scalar("x"), Scalar("x"),
         List(<<"t">>), None, NoTransform, NoTransform, FALSE, NoParams),
     Job("choose_min", List(<<"x">>), List(<<"q">>),
         None, None, NoTransform, NoTransform, FALSE, NoParams)}

----------------------------------------------------------------------------
(* The operations                                                          *)

Init ==
    /\ vectors = NewEngine.vectors
    /\ index = NewEngine.index
    /\ predictions = NewEngine.predictions
    /\ df_a = NewEngine.df_a
    /\ df_b = NewEngine.df_b
    /\ suffix_a = NewEngine.suffix_a
    /\ suffix_b = NewEngine.suffix_b
    /\ resolution_queue = NewEngine.resolution_queue
    /\ call = NoCall
    /\ ret = NoReturn
    /\ last = "init"
    /\ again = FALSE

\* FuseCore.queue_resolve
QueueResolve(job) ==
    /\ resolution_queue' = Append(resolution_queue, job)
    /\ last' = "queue"
    /\ again' = FALSE
    /\ UNCHANGED <<vectors, index, predictions, df_a, df_b, suffix_a, suffix_b, call, ret>>

\* FuseCore.trust_your_friends
TrustYourFriends(c1, c2, trusted) ==
    QueueResolve(Job("choose", c1, c2, Scalar("a"), Scalar("b"),
                     NoTransform, NoTransform, TRUE, <<trusted>>))

\* FuseCore.no_gossiping
NoGossiping(c1, c2) ==
    QueueResolve(Job("no_gossip", c1, c2, None, None, NoTransform, NoTransform, FALSE, NoParams))

\* FuseCore.roll_the_dice
RollTheDice(c1, c2) ==
    QueueResolve(Job("choose_random", c1, c2, None, None,
                     NoTransform, NoTransform, FALSE, NoParams))

\* FuseCore.cry_with_the_wolves
CryWithTheWolves(c1, c2) ==
    QueueResolve(Job("vote", c1, c2, None, None, NoTransform, NoTransform, FALSE, NoParams))

\* FuseCore.fuse, called with the arguments c when the random generator is
\* in state seed.
Fuse(c, seed) ==
    \E r \in {fuse(Self, c.v, c.a, c.b, c.p, c.sa, c.sb, seed)} :
        /\ vectors' = r.self.vectors
        /\ index' = r.self.index
        /\ predictions' = r.self.predictions
        /\ df_a' = r.self.df_a
        /\ df_b' = r.self.df_b
        /\ suffix_a' = r.self.suffix_a
        /\ suffix_b' = r.self.suffix_b
        /\ resolution_queue' = r.self.resolution_queue
        /\ call' = [args |-> c, seed |-> seed, queue |-> resolution_queue]
        /\ ret' = r.ret
        /\ last' = "fuse"
        /\ again' = (last = "fuse" /\ call.args = c)

\* A new engine is constructed in place of this one.
Construct ==
    /\ last # "init"
    /\ vectors' = NewEngine.vectors
    /\ index' = NewEngine.index
    /\ predictions' = NewEngine.predictions
    /\ df_a' = NewEngine.df_a
    /\ df_b' = NewEngine.df_b
    /\ suffix_a' = NewEngine.suffix_a
    /\ suffix_b' = NewEngine.suffix_b
    /\ resolution_queue' = NewEngine.resolution_queue
    /\ call' = NoCall
    /\ ret' = NoReturn
    /\ last' = "init"
    /\ again' = FALSE

\* An engine on which up to MaxQueue jobs are queued, directly or by the
\* convenience wrappers, and fuse is called any number of times.
QueueDirect == \E job \in EngineJobs : Len(resolution_queue) < MaxQueue /\ QueueResolve(job)
QueueTrust == Len(resolution_queue) < MaxQueue /\ TrustYourFriends(Scalar("x"), Scalar("x"), "a")
QueueNoGossip == Len(resolution_queue) < MaxQueue /\ NoGossiping(Scalar("x"), Scalar("y"))
QueueRandom == Len(resolution_queue) < MaxQueue /\ RollTheDice(Scalar("y"), Scalar("x"))
QueueVote == Len(resolution_queue) < MaxQueue /\ CryWithTheWolves(List(<<"x", "y">>), Scalar("x"))
FuseEngine == \E c \in EngineCalls, seed \in Seeds : Fuse(c, seed)

Next ==
    \/ QueueDirect
    \/ QueueTrust
    \/ QueueNoGossip
    \/ QueueRandom
    \/ QueueVote
    \/ FuseEngine
    \/ Construct

Spec == Init /\ [][Next]_vars

\* An engine with one job, of any shape, fused once on any pair index and
\* tables.
QueueOne == \E job \in AlignerJobs : resolution_queue = <<>> /\ QueueResolve(job)
FuseOne == \E c \in AlignerCalls : last = "queue" /\ Fuse(c, 0)

NextAlign ==
    \/ QueueOne
    \/ FuseOne

SpecAlign == Init /\ [][NextAlign]_vars

----------------------------------------------------------------------------
(* What the design document asks of the aligner, stated on its own terms   *)

\* The pairs, the jobs and the columns of the latest fuse call.
CallPairs == call.args.v.pairs
CallJobs == call.queue
Returned == ret.status = "returned"
Columns == ret.table.columns

\* A value after the optional transform.
Transformed(transform, v) == IF transform = NoTransform THEN v ELSE <<transform>> \o v

\* How many slots a side has in the tuples of a job that asks for metadata.
Slots(values, meta, static_meta) ==
    IF static_meta THEN Len(values) ELSE Max(Len(values), Len(meta))

\* One side of the values tuple of the pair whose record on that side is r:
\* each value column at r, or the first value column at r once per metadata
\* column when there are fewer value columns.
ExpectedValues(df, r, values, meta, broadcast, transform) ==
    IF broadcast /\ Len(values) < Len(meta)
    THEN [k \in 1..Len(meta) |-> Transformed(transform, Cell(df, r, values[1]))]
    ELSE [k \in 1..Len(values) |-> Transformed(transform, Cell(df, r, values[k]))]

\* One side of the metadata tuple: the constant per value column, or each
\* metadata column at r, or the first metadata column at r once per value
\* column when there are fewer metadata columns.
ExpectedMeta(df, r, values, meta_arg, static_meta, transform) ==
    LET meta == listify(meta_arg)
    IN  IF static_meta
        THEN [k \in 1..Len(values) |-> Transformed(transform, Const(meta_arg))]
        ELSE IF Len(meta) < Len(values)
        THEN [k \in 1..Len(values) |-> Transformed(transform, Cell(df, r, meta[1]))]
        ELSE [k \in 1..Len(meta) |-> Transformed(transform, Cell(df, r, meta[k]))]

\* The aligned record of pair p for a job on the tables a and b.
ExpectedRecord(job, a, b, p) ==
    LET use_meta == UseMeta(job.meta_a, job.meta_b)
        broadcast == use_meta /\ ~job.static_meta
    IN  Aligned(
            ExpectedValues(a, p[1], listify(job.values_a), listify(job.meta_a), broadcast,
                           job.transform_vals)
            \o ExpectedValues(b, p[2], listify(job.values_b), listify(job.meta_b), broadcast,
                              job.transform_vals),
            IF use_meta
            THEN ExpectedMeta(a, p[1], listify(job.values_a), job.meta_a, job.static_meta,
                              job.transform_meta)
                 \o ExpectedMeta(b, p[2], listify(job.values_b), job.meta_b, job.static_meta,
                                 job.transform_meta)
            ELSE <<>>,
            use_meta)

----------------------------------------------------------------------------
(* The claims                                                              *)

\* C1 (as claimed): order invariant. When fuse returns, every job's output
\* column has exactly one row per pair, and its i-th row is the strategy
\* result on the aligned record built from the A-record and the B-record of
\* the i-th pair, with or without metadata and generalization.
C1_OrderInvariant ==
    Returned =>
        \A k \in 1..Len(Columns) :
            /\ Len(Columns[k]) = Len(CallPairs)
            /\ \A i \in 1..Min(Len(Columns[k]), Len(CallPairs)) :
                Columns[k][i] =
                    Resolved(CallJobs[k].fun,
                             ExpectedRecord(CallJobs[k], call.args.a, call.args.b, CallPairs[i]),
                             CallJobs[k].params, call.seed)

\* A side of a job whose values are broadcast (fewer value columns than
\* metadata columns), or whose metadata is.
BroadcastsValues(job, values, meta) ==
    /\ UseMeta(job.meta_a, job.meta_b)
    /\ ~job.static_meta
    /\ Len(listify(values)) < Len(listify(meta))
BroadcastsMeta(job, values, meta) ==
    /\ UseMeta(job.meta_a, job.meta_b)
    /\ ~job.static_meta
    /\ Len(listify(meta)) < Len(listify(values))

\* The part of a tuple that belongs to side A (the first n entries) or to
\* side B (the last n entries).
PartA(tuple, n) == SubSeq(tuple, 1, n)
PartB(tuple, n) == SubSeq(tuple, Len(tuple) - n + 1, Len(tuple))

\* C2 (as claimed): broadcast correctness. For a job with metadata that is
\* not static, the aligner emits a record for every pair, and on a side with
\* fewer value columns than metadata columns that side's part of the values
\* tuple of pair i is the first value column at the record matched in pair
\* i, once per metadata column; on a side with fewer metadata columns, the
\* same holds of the metadata tuple and the first metadata column.
C2_BroadcastCorrectness ==
    \A k \in 1..Len(ret.aligned) :
        LET job == CallJobs[k]
            records == ret.aligned[k].values
            va == listify(job.values_a)
            vb == listify(job.values_b)
            ma == listify(job.meta_a)
            mb == listify(job.meta_b)
            broadcast ==
                \/ BroadcastsValues(job, job.values_a, job.meta_a)
                \/ BroadcastsValues(job, job.values_b, job.meta_b)
                \/ BroadcastsMeta(job, job.values_a, job.meta_a)
                \/ BroadcastsMeta(job, job.values_b, job.meta_b)
        IN  broadcast =>
            /\ Len(records) = Len(CallPairs)
            /\ \A i \in 1..Min(Len(records), Len(CallPairs)) :
                /\ BroadcastsValues(job, job.values_a, job.meta_a) =>
                    PartA(records[i].values, Len(ma)) =
                        [j \in 1..Len(ma) |->
                            Transformed(job.transform_vals,
                                        Cell(call.args.a, CallPairs[i][1], va[1]))]
                /\ BroadcastsValues(job, job.values_b, job.meta_b) =>
                    PartB(records[i].values, Len(mb)) =
                        [j \in 1..Len(mb) |->
                            Transformed(job.transform_vals,
                                        Cell(call.args.b, CallPairs[i][2], vb[1]))]
                /\ BroadcastsMeta(job, job.values_a, job.meta_a) =>
                    PartA(records[i].meta, Len(va)) =
                        [j \in 1..Len(va) |->
                            Transformed(job.transform_meta,
                                        Cell(call.args.a, CallPairs[i][1], ma[1]))]
                /\ BroadcastsMeta(job, job.values_b, job.meta_b) =>
                    PartB(records[i].meta, Len(vb)) =
                        [j \in 1..Len(vb) |->
                            Transformed(job.transform_meta,
                                        Cell(call.args.b, CallPairs[i][2], mb[1]))]

\* C3 (as claimed): when fuse returns on a queue of n >= 1 jobs, the table
\* has exactly n columns and the k-th column is the k-th job's strategy, with
\* that job's params, applied to each record the aligner emitted for that
\* job, in order.
C3_ColumnsInQueueOrder ==
    Returned =>
        /\ Len(Columns) = Len(CallJobs)
        /\ Len(ret.aligned) = Len(CallJobs)
        /\ \A k \in 1..Len(Columns) :
            Columns[k] =
                [i \in 1..Len(ret.aligned[k].values) |->
                    Resolved(CallJobs[k].fun, ret.aligned[k].values[i], CallJobs[k].params,
                             call.seed)]

\* C4 (as claimed): the Series the aligner emits for a job and the table fuse
\* returns are row-indexed by the pair index: the label of the i-th row is
\* the (A-id, B-id) of the i-th pair, not a position.
C4_RowLabelsArePairs ==
    Returned =>
        /\ ret.table.index = [i \in 1..Len(CallPairs) |-> PairLabel(CallPairs[i])]
        /\ \A k \in 1..Len(ret.aligned) :
            ret.aligned[k].index = [i \in 1..Len(CallPairs) |-> PairLabel(CallPairs[i])]

\* A job that gives metadata for both sides.
MetaForBothSides(job) == job.meta_a.tag # "none" /\ job.meta_b.tag # "none"

\* A job that gives metadata for exactly one side.
MetaForOneSideOnly(job) == (job.meta_a.tag = "none") # (job.meta_b.tag = "none")

\* The metadata tuple of a static job whose constants reach it as they are.
StaticTuple(job, transform) ==
    [j \in 1..(Len(listify(job.values_a)) + Len(listify(job.values_b))) |->
        IF j <= Len(listify(job.values_a))
        THEN Transformed(transform, Const(job.meta_a))
        ELSE Transformed(transform, Const(job.meta_b))]

\* C5 (as claimed): for a job with static_meta and metadata for both sides,
\* every element of the metadata tuple of every pair is the literal constant
\* the caller gave: meta_a in the len(values_a) slots of side A, meta_b in
\* the len(values_b) slots of side B.
C5_StaticLiteral ==
    \A k \in 1..Len(ret.aligned) :
        (CallJobs[k].static_meta /\ MetaForBothSides(CallJobs[k])) =>
            /\ Len(ret.aligned[k].values) = Len(CallPairs)
            /\ \A i \in 1..Len(ret.aligned[k].values) :
                ret.aligned[k].values[i].meta = StaticTuple(CallJobs[k], NoTransform)

\* C5 (amended): for a job with static_meta and metadata for both sides,
\* every element of the metadata tuple of every pair is the constant the
\* caller gave for that side, passed through transform_meta when the job has
\* one, whatever the tables hold.
C5_StaticConstant ==
    \A k \in 1..Len(ret.aligned) :
        (CallJobs[k].static_meta /\ MetaForBothSides(CallJobs[k])) =>
            /\ Len(ret.aligned[k].values) = Len(CallPairs)
            /\ \A i \in 1..Len(ret.aligned[k].values) :
                ret.aligned[k].values[i].meta =
                    StaticTuple(CallJobs[k], CallJobs[k].transform_meta)

\* A static job with a metadata transform was aligned on two pairs.
C5_Witness ==
    /\ Returned
    /\ Len(CallPairs) = 2
    /\ \E k \in 1..Len(ret.aligned) :
        /\ CallJobs[k].static_meta
        /\ MetaForBothSides(CallJobs[k])
        /\ CallJobs[k].transform_meta = "g"
        /\ Len(ret.aligned[k].values) = 2

\* A pure queue: no job's strategy is the randomized one.
PureQueue == \A k \in 1..Len(resolution_queue) : resolution_queue[k].fun # "choose_random"

\* C6: determinism. A fuse call leaves the job queue as it was, and a fuse
\* call that directly follows a fuse call with the same arguments, on a queue
\* of pure strategies (or from the same state of the random generator),
\* returns or raises the same as that call.
C6_Determinism ==
    [][/\ last' = "fuse" => resolution_queue' = resolution_queue
       /\ (/\ last = "fuse"
           /\ last' = "fuse"
           /\ call'.args = call.args
           /\ PureQueue \/ call'.seed = call.seed)
          => ret' = ret]_vars

\* A second fuse call with the arguments of the first returned a table of
\* two columns, from another state of the random generator.
C6_Witness ==
    /\ again
    /\ Returned
    /\ PureQueue
    /\ call.seed = 1
    /\ Len(Columns) = 2
    /\ Len(CallPairs) = 2

\* The errors of a job's configuration, all raised before any column is read.
ConfigurationErrors ==
    {"AssertionError: df_a is None",
     "AssertionError: df_b is None",
     "ValueError: transform_vals must be callable.",
     "ValueError: transform_meta must be callable.",
     "AssertionError: Metadata was given for one Data Frame but not the other."}

\* A job no step of the aligner rejects on present tables: metadata for both
\* sides or neither, transforms callable or absent, every column in its table.
NamesIn(l) == \A j \in 1..Len(l) : l[j] \in TableColumns
ValidJob(job) ==
    /\ ~MetaForOneSideOnly(job)
    /\ job.transform_vals = NoTransform \/ callable(job.transform_vals)
    /\ job.transform_meta = NoTransform \/ callable(job.transform_meta)
    /\ NamesIn(listify(job.values_a)) /\ NamesIn(listify(job.values_b))
    /\ job.static_meta \/ (NamesIn(listify(job.meta_a)) /\ NamesIn(listify(job.meta_b)))

\* A job whose transforms are callable or absent.
ValidTransforms(job) ==
    /\ job.transform_vals = NoTransform \/ callable(job.transform_vals)
    /\ job.transform_meta = NoTransform \/ callable(job.transform_meta)

\* C7 (as claimed): a job with metadata for one side only is queued without
\* error, and every later fuse raises a configuration error during that
\* job's alignment, before any column of that job is read and before its
\* strategy is called, and returns no table.
C7_OneSidedFailsAtThatJob ==
    ret.status # "none" =>
        \A k \in 1..Len(CallJobs) :
            MetaForOneSideOnly(CallJobs[k]) =>
                /\ ret.status = "raised"
                /\ ret.table = NoFrame
                /\ ret.job = k
                /\ ret.err \in ConfigurationErrors
                /\ ret.reads[k] = <<>>
                /\ ret.calls[k] = 0

\* C7 (amended): a job with metadata for one side only is queued without
\* error, and every later fuse raises and returns no table, without reading
\* a column for that job or calling its strategy. The error comes from the
\* first job of the queue that fails: it is that job's configuration error,
\* raised before any of its columns is read, when the run reaches that job,
\* and the run reaches it when the tables are present and every job before
\* it is valid.
C7_OneSidedFails ==
    ret.status # "none" =>
        \A k \in 1..Len(CallJobs) :
            MetaForOneSideOnly(CallJobs[k]) =>
                /\ ret.status = "raised"
                /\ ret.table = NoFrame
                /\ ret.job \in 1..k
                /\ Len(ret.calls) = ret.job
                /\ Len(ret.reads) = ret.job
                /\ ret.calls[ret.job] = 0
                /\ ret.job = k => (ret.err \in ConfigurationErrors /\ ret.reads[k] = <<>>)
                /\ (/\ call.args.a.present
                    /\ call.args.b.present
                    /\ \A j \in 1..(k - 1) : ValidJob(CallJobs[j])
                    /\ ValidTransforms(CallJobs[k]))
                   => (/\ ret.job = k
                       /\ ret.err = "AssertionError: Metadata was given for one Data Frame but not the other.")

\* After a first job that was aligned and resolved, fuse raised on a second
\* job with metadata for one side only.
C7_Witness ==
    /\ ret.status = "raised"
    /\ Len(CallJobs) = 2
    /\ MetaForOneSideOnly(CallJobs[2])
    /\ ret.job = 2
    /\ ret.calls[1] > 0
    /\ ret.reads[2] = <<>>

\* C8: with at least one job queued, all valid, present tables and a pair
\* index of zero pairs, fuse raises nothing and returns a table of zero rows
\* with one column per job, and the aligner emits an empty Series for every
\* job, whatever its metadata mode and the sizes of the tables.
C8_ZeroPairs ==
    (/\ ret.status # "none"
     /\ Len(CallPairs) = 0
     /\ Len(CallJobs) >= 1
     /\ call.args.a.present
     /\ call.args.b.present
     /\ \A k \in 1..Len(CallJobs) : ValidJob(CallJobs[k]))
    => /\ Returned
       /\ ret.table.index = <<>>
       /\ Len(Columns) = Len(CallJobs)
       /\ Len(ret.aligned) = Len(CallJobs)
       /\ \A k \in 1..Len(Columns) : Columns[k] = <<>> /\ ret.aligned[k].values = <<>>

\* fuse returned on zero pairs with two jobs, one with static metadata and
\* one that broadcasts.
C8_Witness ==
    /\ Returned
    /\ Len(CallPairs) = 0
    /\ Len(Columns) = 2
    /\ \E k \in 1..2 : CallJobs[k].static_meta /\ MetaForBothSides(CallJobs[k])
    /\ \E k \in 1..2 : BroadcastsValues(CallJobs[k], CallJobs[k].values_a, CallJobs[k].meta_a)

\* C9 (as claimed): once fuse has returned or raised, the engine no longer
\* holds the inputs of the run: its input fields are absent again.
C9_InputsReleased ==
    ret.status # "none" =>
        /\ vectors = NewEngine.vectors
        /\ index = NewEngine.index
        /\ predictions = NewEngine.predictions
        /\ df_a = NewEngine.df_a
        /\ df_b = NewEngine.df_b
        /\ suffix_a = NewEngine.suffix_a
        /\ suffix_b = NewEngine.suffix_b

\* C9 (amended): the input fields are absent until the first fuse call; from
\* then on, whether fuse returned or raised, the engine holds the inputs of
\* the latest fuse call, until the next call replaces them.
C9_InputsRetained ==
    /\ ret.status = "none" =>
        /\ vectors = NewEngine.vectors
        /\ index = NewEngine.index
        /\ predictions = NewEngine.predictions
        /\ df_a = NewEngine.df_a
        /\ df_b = NewEngine.df_b
        /\ suffix_a = NewEngine.suffix_a
        /\ suffix_b = NewEngine.suffix_b
    /\ ret.status # "none" =>
        /\ vectors = call.args.v
        /\ index = ToFrame(call.args.v)
        /\ predictions = call.args.p
        /\ df_a = call.args.a
        /\ df_b = call.args.b
        /\ suffix_a = call.args.sa
        /\ suffix_b = call.args.sb

\* A job was queued after a fuse call that raised, and the engine still
\* holds that call's tables, predictions and suffixes.
C9_Witness ==
    /\ last = "queue"
    /\ ret.status = "raised"
    /\ df_a.present
    /\ df_b.present
    /\ predictions = "labels"
    /\ suffix_a = "_l"

\* The table a value was read from.
DataOf(v) == v[Len(v) - 2]

\* C10: for a job with metadata for both sides, every aligned record has a
\* values tuple and a metadata tuple of the same length: on each side,
\* max(value columns, metadata columns) slots when the metadata is not
\* static and as many slots as value columns when it is; the values of side
\* A fill the first slots and those of side B the rest.
C10_Arity ==
    \A k \in 1..Len(ret.aligned) :
        MetaForBothSides(CallJobs[k]) =>
            LET job == CallJobs[k]
                na == Slots(listify(job.values_a), listify(job.meta_a), job.static_meta)
                nb == Slots(listify(job.values_b), listify(job.meta_b), job.static_meta)
            IN  \A i \in 1..Len(ret.aligned[k].values) :
                    LET record == ret.aligned[k].values[i]
                    IN  /\ record.use_meta
                        /\ Len(record.values) = na + nb
                        /\ Len(record.meta) = na + nb
                        /\ \A j \in 1..Len(record.values) :
                            DataOf(record.values[j]) =
                                IF j <= na THEN call.args.a.data ELSE call.args.b.data

\* A job that broadcasts its values on side A and its metadata on side B
\* was aligned on at least one pair.
C10_Witness ==
    /\ Returned
    /\ \E k \in 1..Len(ret.aligned) :
        /\ BroadcastsValues(CallJobs[k], CallJobs[k].values_a, CallJobs[k].meta_a)
        /\ BroadcastsMeta(CallJobs[k], CallJobs[k].values_b, CallJobs[k].meta_b)
        /\ Len(ret.aligned[k].values) >= 1

====
